---- MODULE Spec2Model ----
(***************************************************************************)
(* PolySync path-planner example: the planning node (SearchNode.cpp) and   *)
(* the planning core it drives (GridMap / Planner, modelled from the       *)
(* specification of the core).                                             *)
(*                                                                         *)
(* The node is event driven.  okStateEvent is called periodically by the   *)
(* framework, messageEvent once per incoming bus message; the two never    *)
(* overlap, so each call is one atomic step of the model.                  *)
(***************************************************************************)
EXTENDS Integers, Sequences, FiniteSets, TLC

\* SearchNode.cpp:40
INVALID_LOC == -1

\* ------------------------------------------------------------------ bounds
\* node scenarios: grids of width + height <= MaxSide + 1, walls of at most
\* MaxWall cells
MaxSide == 3
MaxWall == 1
\* largest waypoint number a bus message may report
MaxWp == 2
\* searchAStar calls followed in one run
MaxSearches == 2
\* acknowledging-robot runs: grids of at most SearchDim x SearchDim, walls of at
\* most SearchWall cells
SearchDim == 3
SearchWall == 2
\* runs that keep the message of the last messageEvent: grids of
\* width + height <= BusSide + 1, no walls
BusSide == 2

\* ------------------------------------------------------------------ GridWorld
Abs(n) == IF n < 0 THEN -n ELSE n

Cells(w) == 0 .. (w.width * w.height - 1)

InBounds(w, x, y) == x >= 0 /\ x < w.width /\ y >= 0 /\ y < w.height

ValidIndex(w, i) == i >= 0 /\ i < w.width * w.height

\* a failed call of the core
Failure(kind) == [ok |-> FALSE, err |-> kind]

\* index = y * width + x; OutOfBounds outside the grid
IndexFromCoordinate(w, x, y) ==
    IF InBounds(w, x, y)
    THEN [ok |-> TRUE, val |-> y * w.width + x]
    ELSE Failure("OutOfBounds")

\* mutant: rows and columns taken by the height of the grid
CoordinateFromIndex_ByHeight(w, i) ==
    IF i >= 0 /\ i < w.width * w.height
    THEN [ok |-> TRUE, x |-> i % w.height, y |-> i \div w.height]
    ELSE [ok |-> FALSE, err |-> "OutOfBounds"]

\* (x, y) of an index; OutOfBounds outside [0, width * height)
CoordinateFromIndex(w, i) ==
    IF ValidIndex(w, i)
    THEN [ok |-> TRUE, x |-> i % w.width, y |-> i \div w.width]
    ELSE Failure("OutOfBounds")

XOf(w, i) == i % w.width
YOf(w, i) == i \div w.width

IsBlocked(w, i) == i \in w.blocked

StepCost(from, to) == 1

\* candidate moves in the fixed order N, E, S, W
Moves(w, i) ==
    << <<XOf(w, i), YOf(w, i) - 1>>, <<XOf(w, i) + 1, YOf(w, i)>>,
       <<XOf(w, i), YOf(w, i) + 1>>, <<XOf(w, i) - 1, YOf(w, i)>> >>

\* in-bounds, unblocked orthogonal neighbours, in the order of Moves
Neighbors(w, i) ==
    LET m == Moves(w, i)
        ok(k) == /\ InBounds(w, m[k][1], m[k][2])
                 /\ ~IsBlocked(w, m[k][2] * w.width + m[k][1])
    IN  SelectSeq([k \in 1..4 |-> IF ok(k) THEN m[k][2] * w.width + m[k][1] ELSE -1],
                  LAMBDA v : v >= 0)

\* ------------------------------------------------------------------ A*
\* mutant: an estimate three times too high
Heuristic_Greedy(w, i, goal) ==
    3 * (Abs((i % w.width) - (goal % w.width))
         + Abs((i \div w.width) - (goal \div w.width)))

\* Manhattan distance between two cells
Heuristic(w, i, goal) ==
    Abs(XOf(w, i) - XOf(w, goal)) + Abs(YOf(w, i) - YOf(w, goal))

InSeq(s, v) == \E k \in 1..Len(s) : s[k] = v

\* position in the open list of the entry to expand: lowest f = g + h, the
\* earliest discovered among equals
BestOpen(w, open, g, goal) ==
    LET f(k) == g[open[k]] + Heuristic(w, open[k], goal)
    IN  CHOOSE k \in 1..Len(open) :
            \A j \in 1..Len(open) : f(k) < f(j) \/ (f(k) = f(j) /\ k <= j)

RemoveAt(s, k) == SubSeq(s, 1, k - 1) \o SubSeq(s, k + 1, Len(s))

\* relax the neighbours ns of cur, one after the other
RECURSIVE Relax(_, _, _, _, _)
Relax(ns, cur, st, closed, w) ==
    IF ns = << >> THEN st
    ELSE LET n == Head(ns)
             t == st.g[cur] + StepCost(cur, n)
             better == /\ n \notin closed
                       /\ (~InSeq(st.open, n) \/ t < st.g[n])
             nst == IF better
                    THEN [open |-> IF InSeq(st.open, n) THEN st.open
                                   ELSE Append(st.open, n),
                          g    |-> [st.g EXCEPT ![n] = t],
                          pred |-> [st.pred EXCEPT ![n] = cur]]
                    ELSE st
         IN  Relax(Tail(ns), cur, nst, closed, w)

\* predecessor links walked back from i to the start, already reversed
RECURSIVE Reconstruct(_, _, _)
Reconstruct(pred, start, i) ==
    IF i = start THEN <<start>>
    ELSE Append(Reconstruct(pred, start, pred[i]), i)

RECURSIVE AStarLoop(_, _, _, _, _)
AStarLoop(w, start, goal, st, closed) ==
    IF st.open = << >> THEN Failure("Unreachable")
    ELSE LET k   == BestOpen(w, st.open, st.g, goal)
             cur == st.open[k]
         IN  IF cur = goal
             THEN [ok |-> TRUE, path |-> Reconstruct(st.pred, start, goal)]
             ELSE AStarLoop(w, start, goal,
                            Relax(Neighbors(w, cur), cur,
                                  [st EXCEPT !.open = RemoveAt(st.open, k)],
                                  closed \cup {cur}, w),
                            closed \cup {cur})

\* search(startIndex): the path from start to goal, or a failure
AStarPath(w, start, goal) ==
    IF ~ValidIndex(w, start) THEN Failure("OutOfBounds")
    ELSE AStarLoop(w, start, goal,
                   [open |-> <<start>>,
                    g    |-> [i \in Cells(w) |-> IF i = start THEN 0 ELSE -1],
                    pred |-> [i \in Cells(w) |-> -1]],
                   {})


\* ------------------------------------------------------------------ Planner
\* Planner( ): binds the generated world and goal; no path, no move target yet
NewPlanner(scn) ==
    [world |-> scn.world, goal |-> scn.goal, state |-> "GoalSet", path |-> << >>,
     checkedMoveIndX |-> INVALID_LOC, checkedMoveIndY |-> INVALID_LOC]

getGoalX(p) == XOf(p.world, p.goal)
getGoalY(p) == YOf(p.world, p.goal)

\* searchAStar(start): stores the path and returns its length, or fails
searchAStar(p, start) ==
    LET r == AStarPath(p.world, start, p.goal)
    IN  IF r.ok
        THEN [ok |-> TRUE, val |-> Len(r.path),
              planner |-> [p EXCEPT !.state = "PathReady", !.path = r.path]]
        ELSE [ok |-> FALSE, err |-> r.err,
              planner |-> [p EXCEPT !.state = "Failed", !.path = << >>]]

\* getStateFromIndex(i): exposes the coordinate of i as the move target; a
\* failed call leaves the target as it was
getStateFromIndex(p, i) ==
    LET c == CoordinateFromIndex(p.world, i)
    IN  IF c.ok
        THEN [ok |-> TRUE,
              planner |-> [p EXCEPT !.checkedMoveIndX = c.x, !.checkedMoveIndY = c.y]]
        ELSE [ok |-> FALSE, err |-> c.err, planner |-> p]

\* getNextWaypoint(k): path[k] (zero based) and its coordinate as the move target
getNextWaypoint(p, k) ==
    IF p.state # "PathReady" THEN [ok |-> FALSE, err |-> "InvalidState", planner |-> p]
    ELSE IF k < 0 \/ k >= Len(p.path)
    THEN [ok |-> FALSE, err |-> "OutOfRange", planner |-> p]
    ELSE [ok |-> TRUE, val |-> p.path[k + 1],
          planner |-> getStateFromIndex(p, p.path[k + 1]).planner]

\* ------------------------------------------------------------------ scenarios
\* the obstacles of a generated world: none, or one straight wall of 1..n
\* cells, laid along a row or along a column
Walls(x, y, n) ==
    {{}} \cup UNION {UNION {
        {{r * x + c + k : k \in 0..(l - 1)} : l \in 1..(IF x - c < n THEN x - c ELSE n)}
        \cup
        {{(r + k) * x + c : k \in 0..(l - 1)} : l \in 1..(IF y - r < n THEN y - r ELSE n)}
      : c \in 0..(x - 1)} : r \in 0..(y - 1)}

WorldsOf(dims, n) ==
    UNION {{[width |-> d[1], height |-> d[2], blocked |-> b] :
                b \in Walls(d[1], d[2], n)} : d \in dims}

FreeCells(w) == Cells(w) \ w.blocked

\* a generated world with its generated goal, a free cell
ScenariosOf(ws) ==
    UNION {{[world |-> w, goal |-> g] : g \in FreeCells(w)} : w \in ws}

Scenarios ==
    ScenariosOf(WorldsOf({d \in (1..MaxSide) \X (1..MaxSide) : d[1] + d[2] <= MaxSide + 1},
                         MaxWall))

\* the scenario of the specification: 5 x 5, no obstacles
TutorialWorld == [width |-> 5, height |-> 5, blocked |-> {}]

\* a world in which the cells nearest to the goal lead the long way round
DetourWorld == [width |-> 5, height |-> 3, blocked |-> {1, 8}]

SearchScenarios ==
    ScenariosOf(WorldsOf((1..SearchDim) \X (1..SearchDim), SearchWall)
                \cup {TutorialWorld, DetourWorld})

\* ------------------------------------------------------------------ messages
PlatformMotion == "ps_platform_motion_msg"

\* mutant: the goal coordinates the other way round
GoalMsg_Swapped(gx, gy) ==
    [src |-> "searchNode", type |-> "ps_platform_motion_msg",
     position |-> <<0, 0, 0>>, orientation |-> <<gy, gx, 0, 0>>]

\* ps_platform_motion_msg published by this node: the goal
GoalMsg(gx, gy) ==
    [src |-> "searchNode", type |-> PlatformMotion,
     position |-> <<0, 0, 0>>, orientation |-> <<gx, gy, 0, 0>>]

\* ps_platform_motion_msg published by this node: one waypoint
WaypointMsg(waypointID, n, x, y) ==
    [src |-> "searchNode", type |-> PlatformMotion,
     position |-> <<waypointID, 0, n>>, orientation |-> <<x, y, 0, 0>>]

\* a location report of the robot (or of any other node of the bus)
ReportMsg(src, type, x, y, wp) ==
    [src |-> src, type |-> type,
     position |-> <<wp, 0, 0>>, orientation |-> <<x, y, 0, 0>>]

\* where a report may say the robot is: a cell of some generated world, or a
\* location with the sentinel for one or both coordinates
ReportLocs ==
    {l \in (0..(MaxSide - 1)) \X (0..(MaxSide - 1)) : l[1] + l[2] <= MaxSide - 1}
    \cup {<<INVALID_LOC, INVALID_LOC>>, <<INVALID_LOC, 0>>, <<0, INVALID_LOC>>}

\* what the bus may deliver: reports of any content from other nodes, this
\* node's own messages, and messages of other types
BusMessages ==
    {ReportMsg("robotNode", PlatformMotion, l[1], l[2], wp) :
        l \in ReportLocs, wp \in 0..MaxWp}
    \cup {ReportMsg("searchNode", PlatformMotion, x, 0, wp) : x \in 0..1, wp \in 0..1}
    \cup {ReportMsg("robotNode", "ps_event_msg", 0, 0, 0)}

Call(op, args) == [op |-> op, args |-> args]


\* ------------------------------------------------------------------ state
VARIABLES
    \* SearchNode members
    searcher, golLocX, golLocY, robLocX, robLocY, newRobLocX, newRobLocY,
    numWaypoints, waypointCounter,
    \* "ok" while the framework delivers events, "disconnected" after
    \* disconnectPolySync, "aborted" after a failure nobody handled
    status,
    \* the world and goal the Planner constructor generates
    scenario,
    \* the robot of the acknowledging-robot runs: where it is, the waypoint
    \* number it last received, the numbers it received so far, whether it
    \* knows the goal
    robot,
    \* the last event: which handler ran, which branch it took, the calls it
    \* made into the core and the framework, the messages it published
    lastEvent, calls, published,
    \* the run so far: searchAStar calls, whether one found the goal
    \* unreachable, whether a goal message went out
    searchCalls, searchFailed, goalSent

members == <<searcher, golLocX, golLocY, robLocX, robLocY, newRobLocX, newRobLocY,
             numWaypoints, waypointCounter>>

history == <<searchCalls, searchFailed, goalSent>>

vars == <<searcher, golLocX, golLocY, robLocX, robLocY, newRobLocX, newRobLocY,
          numWaypoints, waypointCounter, status, scenario, robot,
          lastEvent, calls, published,
          searchCalls, searchFailed, goalSent>>

NoPlanner == [state |-> "null"]

NoRobot == [x |-> INVALID_LOC, y |-> INVALID_LOC, wp |-> 0, received |-> {}, goal |-> FALSE]

\* mutant: the constructor leaves _newRobLocX at 0
InitNode_NewLocZero ==
    /\ searcher = [state |-> "null"]
    /\ golLocX = INVALID_LOC /\ golLocY = INVALID_LOC
    /\ robLocX = INVALID_LOC /\ robLocY = INVALID_LOC
    /\ newRobLocX = 0 /\ newRobLocY = INVALID_LOC
    /\ numWaypoints = INVALID_LOC
    /\ waypointCounter = INVALID_LOC
    /\ status = "ok"
    /\ lastEvent = [kind |-> "initStateEvent", branch |-> "none"]
    /\ calls = << >> /\ published = << >>
    /\ searchCalls = 0 /\ searchFailed = FALSE /\ goalSent = FALSE

\* SearchNode::SearchNode( )
InitNode ==
    /\ searcher = NoPlanner
    /\ golLocX = INVALID_LOC /\ golLocY = INVALID_LOC
    /\ robLocX = INVALID_LOC /\ robLocY = INVALID_LOC
    /\ newRobLocX = INVALID_LOC /\ newRobLocY = INVALID_LOC
    /\ numWaypoints = INVALID_LOC
    /\ waypointCounter = INVALID_LOC
    /\ status = "ok"
    /\ lastEvent = [kind |-> "initStateEvent", branch |-> "none"]
    /\ calls = << >> /\ published = << >>
    /\ searchCalls = 0 /\ searchFailed = FALSE /\ goalSent = FALSE

Init ==
    /\ InitNode
    /\ scenario \in Scenarios
    /\ robot = NoRobot

\* ------------------------------------------------------------------ okStateEvent
\* the guards of the branches, in the order the code tries them
\* mutant: a goal nobody answered yet counts as not generated
GoalUnset_OrUnanswered ==
    \/ golLocX = INVALID_LOC /\ golLocY = INVALID_LOC
    \/ robLocX = INVALID_LOC /\ robLocY = INVALID_LOC

GoalUnset == golLocX = INVALID_LOC /\ golLocY = INVALID_LOC

\* mutant: both coordinates have to be unknown
RobotUnknown_Both == robLocX = INVALID_LOC /\ robLocY = INVALID_LOC

RobotUnknown == robLocX = INVALID_LOC \/ robLocY = INVALID_LOC

NotSearched == newRobLocX = INVALID_LOC /\ newRobLocY = INVALID_LOC

\* mutant: a coordinate counts as set only when it is positive
Searched_Positive == newRobLocX > 0 \/ newRobLocY > 0

Searched == newRobLocX # INVALID_LOC \/ newRobLocY # INVALID_LOC

\* "have I sent the final waypoint?"
FinalWaypointSent == waypointCounter = numWaypoints - 2

\* mutant: the number the robot reported, sent once more
NextWaypointID_Reported == waypointCounter

NextWaypointID == waypointCounter + 1

Branch ==
    IF GoalUnset THEN "generateGoal"
    ELSE IF RobotUnknown THEN "sendGoal"
    ELSE IF NotSearched THEN "search"
    ELSE IF Searched THEN (IF FinalWaypointSent THEN "shutdown" ELSE "sendWaypoint")
    ELSE "sleep"

Tick(branch) == lastEvent' = [kind |-> "okStateEvent", branch |-> branch]

\* The node checks no result of the core and catches nothing.  A failed call
\* of the core therefore either leaves okStateEvent through the framework
\* (Abort: no further event is delivered), or it returns and the node goes on
\* with the invalid-location sentinel for the value it asked for: both are
\* followed, as the choice "propagate" of the handler.
Abort(branch, cs) ==
    /\ status' = "aborted"
    /\ Tick(branch) /\ calls' = cs /\ published' = << >>

GenerateGoal ==
    /\ searcher' = NewPlanner(scenario)
    /\ golLocX' = getGoalX(NewPlanner(scenario))
    /\ golLocY' = getGoalY(NewPlanner(scenario))
    /\ Tick("generateGoal")
    /\ calls' = <<Call("Planner", << >>)>> /\ published' = << >>
    /\ UNCHANGED <<robLocX, robLocY, newRobLocX, newRobLocY, numWaypoints,
                   waypointCounter, status, history>>

\* sendGoalToRobot( )
SendGoalToRobot ==
    /\ published' = <<GoalMsg(golLocX, golLocY)>>
    /\ goalSent' = TRUE
    /\ Tick("sendGoal") /\ calls' = << >>
    /\ UNCHANGED <<members, status, searchCalls, searchFailed>>

\* mutant: the coordinates the other way round
RobIndexArgs_Swapped == <<robLocY, robLocX>>

\* the start handed to the search
RobIndexArgs == <<robLocX, robLocY>>

Search ==
    LET a  == RobIndexArgs
        ri == IndexFromCoordinate(searcher.world, a[1], a[2])
        c1 == <<Call("getIndexFromState", a)>>
    IN  \E propagate \in BOOLEAN :
          IF ~ri.ok /\ propagate
          THEN /\ Abort("search", c1)
               /\ UNCHANGED <<members, history>>
          ELSE LET robIndex == IF ri.ok THEN ri.val ELSE INVALID_LOC
                   rs == searchAStar(searcher, robIndex)
                   c2 == Append(c1, Call("searchAStar", <<robIndex>>))
               IN  /\ searchCalls' = searchCalls + 1
                   /\ searchFailed' = (searchFailed \/ (~rs.ok /\ rs.err = "Unreachable"))
                   /\ searcher' = rs.planner
                   /\ UNCHANGED <<golLocX, golLocY, robLocX, robLocY,
                                  waypointCounter, goalSent>>
                   /\ IF ~rs.ok /\ propagate
                      THEN /\ Abort("search", c2)
                           /\ UNCHANGED <<newRobLocX, newRobLocY, numWaypoints>>
                      ELSE /\ numWaypoints' = IF rs.ok THEN rs.val ELSE INVALID_LOC
                           /\ newRobLocX' = robLocX
                           /\ newRobLocY' = robLocY
                           /\ Tick("search") /\ calls' = c2 /\ published' = << >>
                           /\ UNCHANGED status

Shutdown ==
    /\ status' = "disconnected"
    /\ Tick("shutdown")
    /\ calls' = <<Call("disconnectPolySync", << >>)>> /\ published' = << >>
    /\ UNCHANGED <<members, history>>

\* sendNextWaypoint( newIndex, waypointID ) after getNextWaypoint( waypointID )
SendNextWaypoint ==
    LET id == NextWaypointID
        rw == getNextWaypoint(searcher, id)
        c1 == <<Call("getNextWaypoint", <<id>>)>>
    IN  \E propagate \in BOOLEAN :
          IF ~rw.ok /\ propagate
          THEN /\ Abort("sendWaypoint", c1)
               /\ UNCHANGED <<members, history>>
          ELSE LET newIndex == IF rw.ok THEN rw.val ELSE INVALID_LOC
                   rc == getStateFromIndex(rw.planner, newIndex)
                   c2 == Append(c1, Call("getStateFromIndex", <<newIndex>>))
               IN  IF ~rc.ok /\ propagate
                   THEN /\ Abort("sendWaypoint", c2)
                        /\ searcher' = rw.planner
                        /\ UNCHANGED <<golLocX, golLocY, robLocX, robLocY, newRobLocX,
                                       newRobLocY, numWaypoints, waypointCounter,
                                       history>>
                   ELSE LET m == WaypointMsg(id, numWaypoints,
                                             rc.planner.checkedMoveIndX,
                                             rc.planner.checkedMoveIndY)
                        IN  /\ searcher' = rc.planner
                            /\ newRobLocX' = rc.planner.checkedMoveIndX
                            /\ newRobLocY' = rc.planner.checkedMoveIndY
                            /\ published' = <<m>>
                            /\ Tick("sendWaypoint") /\ calls' = c2
                            /\ UNCHANGED <<golLocX, golLocY, robLocX, robLocY,
                                           numWaypoints, waypointCounter, status,
                                           searchCalls, searchFailed, goalSent>>

Sleep ==
    /\ Tick("sleep") /\ calls' = << >> /\ published' = << >>
    /\ UNCHANGED <<members, status, history>>

okStateEvent ==
    /\ status = "ok"
    /\ Branch = "search" => searchCalls < MaxSearches
    /\ CASE Branch = "generateGoal" -> GenerateGoal
         [] Branch = "sendGoal"     -> SendGoalToRobot
         [] Branch = "search"       -> Search
         [] Branch = "shutdown"     -> Shutdown
         [] Branch = "sendWaypoint" -> SendNextWaypoint
         [] OTHER                   -> Sleep
    /\ UNCHANGED <<scenario, robot>>

\* ------------------------------------------------------------------ messageEvent
\* mutant: a new waypoint number also makes a report count as new
LocationDiffers_OrNumber(m) ==
    \/ m.orientation[1] # robLocX \/ m.orientation[2] # robLocY
    \/ m.position[1] # waypointCounter

\* the report is taken when its location differs from the stored one
LocationDiffers(m) == m.orientation[1] # robLocX \/ m.orientation[2] # robLocY

\* mutant: the source of the message is not looked at
MsgBranch_AnySource(m) ==
    IF m.type # "ps_platform_motion_msg" THEN "otherType"
    ELSE IF LocationDiffers(m) THEN "accepted"
    ELSE "sameLocation"

MsgBranch(m) ==
    IF m.src = "searchNode" THEN "own"
    ELSE IF m.type # PlatformMotion THEN "otherType"
    ELSE IF LocationDiffers(m) THEN "accepted"
    ELSE "sameLocation"

messageEvent(m) ==
    /\ status = "ok"
    /\ calls' = << >> /\ published' = << >>
    /\ IF MsgBranch(m) = "accepted"
       THEN /\ robLocX' = m.orientation[1]
            /\ robLocY' = m.orientation[2]
            /\ waypointCounter' = m.position[1]
       ELSE UNCHANGED <<robLocX, robLocY, waypointCounter>>
    /\ UNCHANGED <<searcher, golLocX, golLocY, newRobLocX, newRobLocY, numWaypoints,
                   status, scenario, robot, history>>

\* ------------------------------------------------------------------ any node on the bus
Deliver ==
    \E m \in BusMessages :
        /\ messageEvent(m)
        /\ lastEvent' = [kind |-> "messageEvent", branch |-> "none"]

Next == okStateEvent \/ Deliver

Spec == Init /\ [][Next]_vars

\* the same bus, with the message handed to messageEvent and the way the
\* handler went kept as the last event
DeliverObserved ==
    \E m \in BusMessages :
        /\ messageEvent(m)
        /\ lastEvent' = [kind |-> "messageEvent", branch |-> MsgBranch(m), msg |-> m]

BusScenarios ==
    ScenariosOf(WorldsOf({d \in (1..BusSide) \X (1..BusSide) : d[1] + d[2] <= BusSide + 1},
                         0))

InitBus ==
    /\ InitNode
    /\ scenario \in BusScenarios
    /\ robot = NoRobot

NextBus == okStateEvent \/ DeliverObserved

SpecBus == InitBus /\ [][NextBus]_vars


\* ------------------------------------------------------------------ the robot
\* The robot stands on a free cell.  It takes every message the node
\* publishes (the subscription is reliable) before the node's next event:
\* the goal, or a waypoint, to which it moves.  Once it knows the goal it
\* reports where it is and the number of the waypoint it last received, 0
\* before the first one.
IsGoalMsg(m) == m.src = "searchNode" /\ m.position = <<0, 0, 0>>

IsWaypointMsg(m) == m.src = "searchNode" /\ m.position # <<0, 0, 0>>

Taken(m) ==
    IF IsWaypointMsg(m)
    THEN [robot EXCEPT !.x = m.orientation[1], !.y = m.orientation[2],
                       !.wp = m.position[1], !.received = @ \cup {m.position[1]}]
    ELSE [robot EXCEPT !.goal = TRUE]

Pending == published # << >> /\ Taken(published[1]) # robot

RobotReceive ==
    /\ Pending
    /\ robot' = Taken(published[1])
    /\ UNCHANGED <<members, status, scenario, lastEvent, calls, published, history>>

RobotReport ==
    /\ ~Pending
    /\ robot.goal
    /\ messageEvent(ReportMsg("robotNode", PlatformMotion, robot.x, robot.y, robot.wp))
    /\ lastEvent' = [kind |-> "messageEvent", branch |-> "none"]

NodeTick == ~Pending /\ okStateEvent

InitAck ==
    /\ InitNode
    /\ scenario \in SearchScenarios
    /\ robot \in {[x |-> XOf(scenario.world, i), y |-> YOf(scenario.world, i),
                   wp |-> 0, received |-> {}, goal |-> FALSE] :
                        i \in FreeCells(scenario.world)}

NextAck == NodeTick \/ RobotReceive \/ RobotReport

SpecAck == InitAck /\ [][NextAck]_vars

\* the tick that runs the search, and every other tick
SearchTick == Branch = "search" /\ NodeTick

OtherTick == Branch # "search" /\ NodeTick

\* when a search tick can be taken; it always changes the state (searchCalls)
SearchTickEnabled ==
    ~Pending /\ status = "ok" /\ Branch = "search" /\ searchCalls < MaxSearches

\* okStateEvent is called periodically for as long as the node is in its ok
\* state, the reliable subscription hands every published message to the
\* robot, and the robot keeps reporting.  The last conjunct is weak fairness
\* of SearchTick, with its enabling condition written out.
InitFair ==
    /\ InitNode
    /\ scenario \in Scenarios
    /\ robot \in {[x |-> XOf(scenario.world, i), y |-> YOf(scenario.world, i),
                   wp |-> 0, received |-> {}, goal |-> FALSE] :
                        i \in FreeCells(scenario.world)}

SpecAckFair ==
    /\ InitFair /\ [][NextAck]_vars
    /\ WF_vars(OtherTick) /\ WF_vars(RobotReceive) /\ WF_vars(RobotReport)
    /\ ([]<>(~SearchTickEnabled) \/ []<><<SearchTick>>_vars)


\* ------------------------------------------------------------------ properties
CallsOf(op) == {k \in 1..Len(calls) : calls[k].op = op}

WaypointsPublished == {k \in 1..Len(published) : IsWaypointMsg(published[k])}

\* the search succeeded and the node holds the count it returned
PathReady == searcher.state = "PathReady" /\ numWaypoints = Len(searcher.path)

\* C1: with an acknowledging robot and a path of N >= 2 cells, every waypoint
\* 1..N-1 (the goal cell, N-1, included) has been sent, and so received, by the
\* time the node calls disconnectPolySync.
C1_AllWaypointsDelivered ==
    (status = "disconnected" /\ PathReady /\ numWaypoints >= 2)
        => \A i \in 1..(numWaypoints - 1) : i \in robot.received

\* C2: with an acknowledging robot and a path of N >= 1 cells, every
\* getNextWaypoint(k) the node calls has 0 <= k < N.
C2_WaypointIndexInRange ==
    (PathReady /\ numWaypoints >= 1)
        => \A k \in CallsOf("getNextWaypoint") :
              calls[k].args[1] >= 0 /\ calls[k].args[1] < numWaypoints

\* C3: once searchAStar has found the goal unreachable, the node calls
\* getNextWaypoint no more and publishes no waypoint message.
C3_FailedSearchNotUsed ==
    searchFailed => (CallsOf("getNextWaypoint") = {} /\ WaypointsPublished = {})

\* C4: no getNextWaypoint call and no waypoint message before searchAStar has
\* been called (and, the handlers being atomic, has returned).
C4_WaypointsOnlyAfterSearch ==
    (CallsOf("getNextWaypoint") # {} \/ WaypointsPublished # {})
        => (searchCalls >= 1 /\ lastEvent.branch # "search")

C4_Witness ==
    /\ CallsOf("getNextWaypoint") # {} /\ WaypointsPublished # {}
    /\ searchCalls = 1 /\ PathReady

\* C5: whenever okStateEvent calls getIndexFromState and searchAStar, neither
\* robot coordinate handed over is the sentinel and the Planner exists.
C5_NoSentinelToSearch ==
    (CallsOf("getIndexFromState") \cup CallsOf("searchAStar")) # {}
        => /\ robLocX # INVALID_LOC /\ robLocY # INVALID_LOC
           /\ \A c \in CallsOf("getIndexFromState") : calls[c].args = <<robLocX, robLocY>>
           /\ searcher # NoPlanner
           /\ golLocX = XOf(searcher.world, searcher.goal)
           /\ golLocY = YOf(searcher.world, searcher.goal)

C5_Witness ==
    /\ CallsOf("getIndexFromState") # {} /\ CallsOf("searchAStar") # {}
    /\ robLocX # INVALID_LOC /\ robLocY # INVALID_LOC
    /\ searcher.state = "PathReady"

C7_GoalResentUntilAnswer ==
    [][lastEvent'.kind = "okStateEvent" =>
         /\ (   (golLocX # INVALID_LOC \/ golLocY # INVALID_LOC)
             /\ (robLocX = INVALID_LOC \/ robLocY = INVALID_LOC))
              => /\ Len(published') = 1
                 /\ published'[1].position = <<0, 0, 0>>
                 /\ published'[1].orientation = <<golLocX, golLocY, 0, 0>>
                 /\ UNCHANGED <<members, status>>
         /\ (robLocX # INVALID_LOC /\ robLocY # INVALID_LOC)
              => \A k \in 1..Len(published') : published'[k].position # <<0, 0, 0>>]_vars

\* the goal sent once more after a report that left one coordinate unknown
C7_Witness ==
    /\ lastEvent.branch = "sendGoal"
    /\ Len(published) = 1 /\ published[1].orientation = <<golLocX, golLocY, 0, 0>>
    /\ golLocX # golLocY
    /\ robLocX # INVALID_LOC /\ robLocY = INVALID_LOC

\* C8: every waypoint message carries position (waypointID, 0, N), N the count
\* searchAStar returned, and as orientation the coordinate of path[waypointID],
\* which is also what newRobLocX / newRobLocY hold.
C8_WaypointMessageContent ==
    \A k \in WaypointsPublished :
        LET m  == published[k]
            id == m.position[1]
        IN  /\ PathReady
            /\ m.position = <<id, 0, Len(searcher.path)>>
            /\ id >= 0 /\ id < Len(searcher.path)
            /\ m.orientation = <<XOf(searcher.world, searcher.path[id + 1]),
                                 YOf(searcher.world, searcher.path[id + 1]), 0, 0>>
            /\ newRobLocX = m.orientation[1] /\ newRobLocY = m.orientation[2]


\* two cells side by side in a row or in a column
Adjacent(w, i, j) ==
    Abs(XOf(w, i) - XOf(w, j)) + Abs(YOf(w, i) - YOf(w, j)) = 1

\* fewest steps from the cells of frontier (d steps from the start) to goal,
\* by breadth-first flooding of the free cells; -1 when there is no way
RECURSIVE Flood(_, _, _, _, _)
Flood(w, frontier, seen, goal, d) ==
    IF goal \in frontier THEN d
    ELSE IF frontier = {} THEN -1
    ELSE LET next == {j \in FreeCells(w) \ seen :
                         \E i \in frontier : Adjacent(w, i, j)}
         IN  Flood(w, next, seen \cup next, goal, d + 1)

FewestSteps(w, start, goal) == Flood(w, {start}, {start}, goal, 0)

\* the index of the robot location the node holds
RobIndex == robLocY * searcher.world.width + robLocX

\* C9: the stored path starts at the start index, ends at the goal index, and
\* steps between orthogonally adjacent, unblocked, in-bounds cells; the count
\* returned is its length and getNextWaypoint(i) hands the node path[i].
C9_PathInvariant ==
    searcher.state = "PathReady" =>
        LET p == searcher.path
            w == searcher.world
        IN  /\ Len(p) >= 1
            /\ numWaypoints = Len(p)
            /\ p[Len(p)] = searcher.goal
            /\ lastEvent.branch = "search" => p[1] = RobIndex
            /\ \A i \in 1..Len(p) : ValidIndex(w, p[i]) /\ ~IsBlocked(w, p[i])
            /\ \A i \in 1..(Len(p) - 1) : Adjacent(w, p[i], p[i + 1])
            /\ \A k \in CallsOf("getNextWaypoint") :
                  (calls[k].args[1] >= 0 /\ calls[k].args[1] < Len(p))
                     => calls[k + 1] = Call("getStateFromIndex",
                                            <<p[calls[k].args[1] + 1]>>)

\* a path that has to go round a wall, with its second cell handed out
C9_Witness ==
    /\ searcher.state = "PathReady"
    /\ searcher.world.blocked # {}
    /\ Len(searcher.path) > 1 + Heuristic(searcher.world, searcher.path[1], searcher.goal)
    /\ CallsOf("getNextWaypoint") # {}
    /\ WaypointsPublished # {}

\* C10: the path found has the fewest steps there are from start to goal; on a
\* grid without obstacles, from (0,0) to (w-1,h-1), the count is (w-1)+(h-1)+1.
C10_OptimalPath ==
    (lastEvent.branch = "search" /\ searcher.state = "PathReady") =>
        LET w == searcher.world
        IN  /\ numWaypoints = FewestSteps(w, RobIndex, searcher.goal) + 1
            /\ (w.blocked = {} /\ RobIndex = 0 /\ searcher.goal = w.width * w.height - 1)
                  => numWaypoints = (w.width - 1) + (w.height - 1) + 1

\* the scenario of the specification: 5 x 5, (0,0) to (4,4), 9 waypoints
C10_Witness ==
    /\ lastEvent.branch = "search" /\ searcher.state = "PathReady"
    /\ searcher.world = TutorialWorld
    /\ RobIndex = 0 /\ searcher.goal = 24
    /\ numWaypoints = 9

\* C11: in every generated world, indexFromCoordinate(x, y) = y * width + x and
\* coordinateFromIndex gives (x, y) back for every cell; the robot location the
\* search branch converts with getIndexFromState is the cell getStateFromIndex
\* gives back for that index, and the move target sendNextWaypoint takes from
\* getStateFromIndex converts back to the index it was asked for.
C11_RoundTrip ==
    LET w == scenario.world
    IN  /\ \A x \in 0..(w.width - 1), y \in 0..(w.height - 1) :
              LET i == IndexFromCoordinate(w, x, y)
              IN  /\ i.ok /\ i.val = y * w.width + x
                  /\ CoordinateFromIndex(w, i.val) = [ok |-> TRUE, x |-> x, y |-> y]
        /\ \A k \in CallsOf("searchAStar") :
              calls[k].args[1] # INVALID_LOC =>
                  LET back == getStateFromIndex(searcher, calls[k].args[1]).planner
                  IN  /\ calls[k - 1] = Call("getIndexFromState", <<robLocX, robLocY>>)
                      /\ back.checkedMoveIndX = robLocX
                      /\ back.checkedMoveIndY = robLocY
        /\ \A k \in CallsOf("getStateFromIndex") :
              (calls[k].args[1] # INVALID_LOC /\ status = "ok") =>
                  IndexFromCoordinate(w, newRobLocX, newRobLocY)
                      = [ok |-> TRUE, val |-> calls[k].args[1]]

\* a robot off the diagonal of a grid that is wider than high, its location
\* converted for the search
C11_Witness ==
    /\ CallsOf("searchAStar") # {}
    /\ scenario.world.width > scenario.world.height /\ scenario.world.height > 1
    /\ robLocX > robLocY /\ robLocY > 0
    /\ calls[1].args = <<robLocX, robLocY>>
    /\ calls[2].args = <<robLocY * scenario.world.width + robLocX>>

\* C12: a tick of the waypoint phase (goal set, robot location known, search
\* done) that neither shuts down nor ends the node publishes exactly one message,
\* with waypoint ID _waypointCounter + 1, and leaves the counter alone, so the
\* next tick sends the same ID again; the counter is the number of a report
\* that was accepted, and only an accepted report (one that changes the stored
\* location) changes it.
C12_StopAndWait ==
    [][/\ (   lastEvent'.kind = "okStateEvent" /\ status' = "ok"
            /\ (golLocX # INVALID_LOC \/ golLocY # INVALID_LOC)
            /\ robLocX # INVALID_LOC /\ robLocY # INVALID_LOC
            /\ (newRobLocX # INVALID_LOC \/ newRobLocY # INVALID_LOC)
            /\ waypointCounter # numWaypoints - 2)
              => /\ Len(published') = 1
                 /\ published'[1].position[1] = waypointCounter + 1
                 /\ published'[1].position[3] = numWaypoints
                 /\ waypointCounter # INVALID_LOC
       /\ \A k \in 1..Len(published') :
              published'[k].position # <<0, 0, 0>>
                  => published'[k].position[1] = waypointCounter + 1
       /\ lastEvent'.kind = "okStateEvent" => waypointCounter' = waypointCounter
       /\ waypointCounter' # waypointCounter
              => /\ lastEvent'.kind = "messageEvent"
                 /\ (robLocX' # robLocX \/ robLocY' # robLocY)]_vars

\* waypoint 1 of a path of three cells sent after the report with number 0
C12_Witness ==
    /\ lastEvent.branch = "sendWaypoint" /\ status = "ok"
    /\ PathReady /\ numWaypoints = 3
    /\ waypointCounter = 0
    /\ Len(published) = 1 /\ published[1].position = <<1, 0, 3>>
    /\ published[1].orientation = <<newRobLocX, newRobLocY, 0, 0>>

\* C13: once searchAStar has been called, no tick takes the branch that
\* generates the goal or the branch that broadcasts it, whatever messages come
\* in, and from whatever node.
C13_PhasesForward ==
    searchCalls >= 1 => lastEvent.branch \notin {"generateGoal", "sendGoal"}

\* C14: a messageEvent with a message whose source is the node itself changes
\* no member of the node, whatever the message carries.
C14_OwnMessagesIgnored ==
    [][(lastEvent'.kind = "messageEvent" /\ lastEvent'.msg.src = "searchNode")
          => UNCHANGED <<members, status>>]_vars

\* an own platform-motion message that a foreign node could have had accepted:
\* another location than the stored one, another waypoint number
C14_Witness ==
    /\ lastEvent.kind = "messageEvent"
    /\ lastEvent.msg.src = "searchNode"
    /\ lastEvent.msg.type = "ps_platform_motion_msg"
    /\ robLocX # INVALID_LOC /\ robLocY # INVALID_LOC
    /\ lastEvent.msg.orientation[1] # robLocX
    /\ lastEvent.msg.position[1] # waypointCounter

\* C15: a messageEvent with a platform-motion message of another node changes
\* nothing when the message's orientation[0], orientation[1] equal _robLocX,
\* _robLocY, whatever its position[0]; otherwise it sets _robLocX, _robLocY and
\* _waypointCounter to orientation[0], orientation[1] and position[0] and
\* changes no other member.
C15_AcceptOnlyNewLocation ==
    [][(   lastEvent'.kind = "messageEvent"
        /\ lastEvent'.msg.src # "searchNode"
        /\ lastEvent'.msg.type = "ps_platform_motion_msg")
          => LET m == lastEvent'.msg
             IN  IF m.orientation[1] = robLocX /\ m.orientation[2] = robLocY
                 THEN UNCHANGED <<members, status>>
                 ELSE /\ robLocX' = m.orientation[1]
                      /\ robLocY' = m.orientation[2]
                      /\ waypointCounter' = m.position[1]
                      /\ UNCHANGED <<searcher, golLocX, golLocY, newRobLocX,
                                     newRobLocY, numWaypoints, status>>]_vars

\* a report of the stored location with a new waypoint number, left aside
C15_Witness ==
    /\ lastEvent.kind = "messageEvent"
    /\ lastEvent.msg.src # "searchNode"
    /\ lastEvent.msg.type = "ps_platform_motion_msg"
    /\ robLocX # INVALID_LOC /\ robLocY # INVALID_LOC
    /\ lastEvent.msg.orientation = <<robLocX, robLocY, 0, 0>>
    /\ lastEvent.msg.position[1] # waypointCounter

\* C16: with ticks that keep occurring and a robot that acknowledges every
\* waypoint it is sent, every search that returned a count N >= 1 (start on
\* the goal, N = 1, included) is followed by the shutdown branch: the node
\* calls disconnectPolySync.
C16_SessionTerminates ==
    (searcher.state = "PathReady" /\ numWaypoints >= 1) ~> (status = "disconnected")

\* C17: whenever searchAStar has been called, sendGoalToRobot has published
\* the goal at least once before, however ticks and incoming messages
\* interleave.
C17_GoalBeforeSearch == searchCalls >= 1 => goalSent

\* C18: while the goal is unset no message changes it and the first tick
\* constructs the Planner and takes its goal, a valid cell, into
\* _golLocX / _golLocY; from then on no tick and no message changes
\* _golLocX or _golLocY, constructs a Planner again or changes the Planner's
\* world or goal, every goal message carries (_golLocX, _golLocY), and a path
\* found by the search ends at that cell.
C18_GoalFixed ==
    [][/\ (golLocX = INVALID_LOC /\ golLocY = INVALID_LOC)
          => IF lastEvent'.kind = "okStateEvent"
             THEN /\ calls' = <<Call("Planner", << >>)>>
                  /\ searcher'.world = scenario.world /\ searcher'.goal = scenario.goal
                  /\ golLocX' >= 0 /\ golLocX' < scenario.world.width
                  /\ golLocY' >= 0 /\ golLocY' < scenario.world.height
                  /\ golLocY' * scenario.world.width + golLocX' = scenario.goal
             ELSE UNCHANGED <<golLocX, golLocY, searcher>>
       /\ (golLocX # INVALID_LOC \/ golLocY # INVALID_LOC)
          => /\ UNCHANGED <<golLocX, golLocY>>
             /\ searcher'.world = searcher.world /\ searcher'.goal = searcher.goal
             /\ \A k \in 1..Len(calls') : calls'[k].op # "Planner"
             /\ \A k \in 1..Len(published') :
                    published'[k].position = <<0, 0, 0>>
                        => published'[k].orientation = <<golLocX, golLocY, 0, 0>>
             /\ (lastEvent'.branch = "search" /\ searcher'.state = "PathReady")
                    => searcher'.path[Len(searcher'.path)]
                           = golLocY * searcher.world.width + golLocX]_vars

\* the goal broadcast, then a search that ends at the same goal
C18_Witness ==
    /\ lastEvent.branch = "search" /\ searcher.state = "PathReady"
    /\ goalSent
    /\ golLocX # golLocY
    /\ Len(searcher.path) > 1
    /\ searcher.path[Len(searcher.path)] = golLocY * searcher.world.width + golLocX
    /\ searcher.goal = scenario.goal

\* C19: in every reachable state the dispatcher of okStateEvent selects one
\* of its four guarded branches (generate the goal, send the goal, search, send
\* a waypoint or shut down), and no tick has taken the final else branch, the
\* one that only sleeps.
C19_NoFallback ==
    /\ Branch \in {"generateGoal", "sendGoal", "search", "sendWaypoint", "shutdown"}
    /\ lastEvent.branch # "sleep"
    /\ lastEvent.kind = "okStateEvent"
          => lastEvent.branch \in {"generateGoal", "sendGoal", "search",
                                   "sendWaypoint", "shutdown"}

\* the search just done from cell (0,0): the fourth guard holds on a location
\* whose coordinates are both 0
C19_Witness ==
    /\ lastEvent.branch = "search" /\ status = "ok"
    /\ newRobLocX = 0 /\ newRobLocY = 0
    /\ Branch \in {"sendWaypoint", "shutdown"}

====
